---------------------------- MODULE Spec2Model ----------------------------
(***************************************************************************)
(* A model of coreclr-rs: the host configuration builder, the build of a   *)
(* ClrHost (library load, symbol resolution, trusted-assembly scan,        *)
(* property list, coreclr_initialize), the calls made through a ClrHost    *)
(* and its drop.                                                           *)
(*                                                                         *)
(* Text is a sequence of one-character strings.  Two characters stand for  *)
(* bytes with a special meaning to the code: "NUL" is the zero byte (valid *)
(* UTF-8, refused by CString::new) and "BAD" is a byte that is not valid   *)
(* UTF-8 (Path::to_str answers None for a path that holds one).            *)
(***************************************************************************)
EXTENDS Integers, Sequences, FiniteSets, TLC

VARIABLES
    builder,        \* the ClrHostBuilder's fields
    lastServerOp,   \* history: the last call among with_server_gc / with_workstation_gc
    lastConcOp,     \* history: the last call among with_concurrent_gc / with_nonconcurrent_gc
    lastBuild,      \* what build() did and returned, while the builder is as that
                    \* build() saw it (NoBuild once the builder is changed again)
    hosts,          \* the ClrHost values that build() has returned, by slot
    lastCall,       \* the last execute_assembly / create_delegate call: what it did and returned
    dlRefs,         \* open handles of the runtime library in the process (dlopen minus dlclose)
    alive           \* FALSE once the process has been terminated abnormally

vars == <<builder, lastServerOp, lastConcOp, lastBuild, hosts, lastCall, dlRefs, alive>>

----------------------------------------------------------------------------
(* Bounds of the model. *)

\* ClrHost values that may be created in one behaviour.
MaxHosts == 1
\* Calls of with_assembly_probe_path, and of with_native_library_probe_path, in one behaviour.
MaxProbePaths == 2
\* Entries a directory listing may yield.
MaxEntries == 3

----------------------------------------------------------------------------
(* Text, Option and io::Result. *)

NUL == "NUL"
BAD == "BAD"

None == [some |-> FALSE, v |-> <<>>]
Some(x) == [some |-> TRUE, v |-> x]

Range(s) == {s[i] : i \in DOMAIN s}

\* io::Result / what became of a call.  tag is "Ok", "Err" (an io::Error was
\* returned), "Panic" (the call unwound) or "Abort" (the process was terminated).
\* kind is the io::ErrorKind of a constructed error, "Os" for an error made by
\* Error::from_raw_os_error (code is then the raw OS error number).
Ok(x) == [tag |-> "Ok", kind |-> "-", code |-> 0, val |-> x]
Err(k) == [tag |-> "Err", kind |-> k, code |-> 0, val |-> <<>>]
Panic == [tag |-> "Panic", kind |-> "-", code |-> 0, val |-> <<>>]
Abort == [tag |-> "Abort", kind |-> "-", code |-> 0, val |-> <<>>]
NoResult == [tag |-> "None", kind |-> "-", code |-> 0, val |-> <<>>]

\* Error::from_raw_os_error(code): the error carries the code unchanged.
from_raw_os_error(c) == [tag |-> "Err", kind |-> "Os", code |-> c, val |-> <<>>]

\* Path::to_str / OsStr::to_str: Some(text) iff the bytes are valid UTF-8.
to_str(p) == IF BAD \in Range(p) THEN None ELSE Some(p)

\* CString::new(bytes): an interior zero byte is a NulError, which `try!` turns
\* into an io::Error of kind InvalidInput; `unwrap` panics on it.
CString_new(s) == IF NUL \in Range(s) THEN Err("InvalidInput") ELSE Ok(s)

\* String::push_str / push on text.
push_str(s, t) == s \o t

\* [String]::join(sep)
RECURSIVE join(_, _)
join(list, sep) ==
    IF Len(list) = 0 THEN <<>>
    ELSE IF Len(list) = 1 THEN list[1]
    ELSE list[1] \o sep \o join(Tail(list), sep)

\* PathBuf::push(name) for a relative one-component name: a separator is added
\* unless the path is empty or already ends with one.
PathPush(p, name) ==
    IF Len(p) = 0 \/ p[Len(p)] = "/" THEN p \o name ELSE p \o <<"/">> \o name

\* Path::extension of a path whose last component is `name`: the text after the
\* last "." of the file name; None when there is no "." or when the only "." is
\* the first character.
LastDot(name) ==
    IF \E i \in DOMAIN name : name[i] = "."
    THEN CHOOSE i \in DOMAIN name : name[i] = "." /\ \A j \in DOMAIN name : name[j] = "." => j <= i
    ELSE 0

extension(name) ==
    IF LastDot(name) <= 1 \/ name = <<".", ".">> THEN None
    ELSE Some(SubSeq(name, LastDot(name) + 1, Len(name)))

----------------------------------------------------------------------------
(* The trusted-assembly scan. *)

\* A directory listing, as fs::read_dir and its iterator give it: `ok` is whether
\* read_dir itself succeeded, `errno` the OS error when it did not, `entries` what
\* the iterator yields, each entry a file name or an OS error.
DirEntry(name) == [ok |-> TRUE, name |-> name, errno |-> 0]
DirEntryErr(e) == [ok |-> FALSE, name |-> <<>>, errno |-> e]
Listing(entries) == [ok |-> TRUE, errno |-> 0, entries |-> entries]
ListingErr(e) == [ok |-> FALSE, errno |-> e, entries |-> <<>>]

\* The body of build_tpas's `for` loop from entry i on; buffer is the Vec of
\* accepted paths, set the HashSet of paths seen.
RECURSIVE tpa_loop(_, _, _, _, _)
tpa_loop(path, entries, i, buffer, set) ==
    IF i > Len(entries) THEN Ok(join(buffer, <<":">>))
    ELSE IF ~entries[i].ok THEN from_raw_os_error(entries[i].errno)
    ELSE
      LET file == PathPush(path, entries[i].name)
          ext == extension(entries[i].name)
          s == IF ext.some THEN to_str(ext.v) ELSE None
      IN  IF s.some /\ (s.v = <<"d", "l", "l">> \/ s.v = <<"e", "x", "e">>)
          THEN IF file \notin set
               THEN IF to_str(file).some
                    THEN tpa_loop(path, entries, i + 1, Append(buffer, to_str(file).v),
                                  set \cup {file})
                    ELSE Panic
               ELSE tpa_loop(path, entries, i + 1, buffer, set)
          ELSE tpa_loop(path, entries, i + 1, buffer, set)

\* build_tpas(path): the ':'-joined list of the .dll and .exe files of a directory.
build_tpas(path, listing) ==
    IF ~listing.ok THEN from_raw_os_error(listing.errno)
    ELSE tpa_loop(path, listing.entries, 1, <<>>, {})

----------------------------------------------------------------------------
(* Machine integers.  libc::c_int and libc::c_uint are modelled IntBits wide *)
(* (two's complement for c_int); usize is wider than c_uint.                 *)

IntBits == 8
CUintMod == 2 ^ IntBits

\* `x as usize` for a libc::c_uint x: zero extension.
c_uint_as_usize(x) == x % CUintMod
\* `x as libc::c_uint` for a usize x: truncation.
usize_as_c_uint(x) == x % CUintMod
\* A conversion to libc::c_int that saturates instead of wrapping.
usize_as_c_int_saturating(x) ==
    IF x >= CUintMod \div 2 THEN (CUintMod \div 2) - 1 ELSE x

\* `x as libc::c_int` for a usize x: truncation, read as two's complement.
usize_as_c_int(x) ==
    IF x % CUintMod >= CUintMod \div 2 THEN (x % CUintMod) - CUintMod ELSE x % CUintMod

----------------------------------------------------------------------------
(* ClrHostBuilder. *)

\* impl Default for ClrHostBuilder
ClrHostBuilder_default ==
    [ server_gc |-> FALSE,
      concurrent_gc |-> TRUE,
      coreclr_path |-> None,
      assembly |-> None,
      appdomain_name |-> None,
      assembly_load_paths |-> <<>>,
      native_library_search_paths |-> <<>> ]

with_server_gc(b) == [b EXCEPT !.server_gc = TRUE]
\* A with_workstation_gc that clears the other flag.
with_workstation_gc_wrong_field(b) == [b EXCEPT !.concurrent_gc = FALSE]
with_workstation_gc(b) == [b EXCEPT !.server_gc = FALSE]
with_concurrent_gc(b) == [b EXCEPT !.concurrent_gc = TRUE]
with_nonconcurrent_gc(b) == [b EXCEPT !.concurrent_gc = FALSE]
with_coreclr_path(b, path) == [b EXCEPT !.coreclr_path = Some(path)]
with_assembly_probe_path(b, path) ==
    [b EXCEPT !.assembly_load_paths = Append(@, path)]
with_native_library_probe_path(b, path) ==
    [b EXCEPT !.native_library_search_paths = Append(@, path)]
with_assembly(b, path) == [b EXCEPT !.assembly = Some(path)]
with_appdomain_name(b, name) == [b EXCEPT !.appdomain_name = Some(name)]

----------------------------------------------------------------------------
(* loader::DynamicLibrary.  The environment of a build() call says what the  *)
(* loader and the runtime answer: env.dlopen (dlopen finds the library),     *)
(* env.exports (the symbols dlsym finds), env.dlerr (what the error path     *)
(* after a null dlopen/dlsym does: it hands dlerror's buffer, which Rust     *)
(* did not allocate, to CString::from_raw, so the build may give the error,  *)
(* panic in `expect`, or terminate the process), env.listing (the directory  *)
(* scan) and env.init (coreclr_initialize's result code and out-parameters). *)

Symbols ==
    << "coreclr_initialize", "coreclr_shutdown",
       "coreclr_create_delegate", "coreclr_execute_assembly" >>

DlErrOutcomes == {"err", "panic", "abort"}

\* The error path shared by load and resolve_symbol (dlerror, CString::from_raw,
\* into_string().expect, Error::new(ErrorKind::Other, ..)).
dlerror_path(env) ==
    IF env.dlerr = "err" THEN Err("Other")
    ELSE IF env.dlerr = "panic" THEN Panic
    ELSE Abort

\* A load that calls dlopen a second time when the first call gave null.
DynamicLibrary_load_retry(path, env) ==
    IF ~to_str(path).some THEN [result |-> Err("InvalidInput"), dlopens |-> 0]
    ELSE IF CString_new(to_str(path).v).tag # "Ok"
         THEN [result |-> Err("InvalidInput"), dlopens |-> 0]
    ELSE IF env.dlopen THEN [result |-> Ok(<<>>), dlopens |-> 1]
    ELSE [result |-> dlerror_path(env), dlopens |-> 2]

\* DynamicLibrary::load(path): [result, dlopens (calls of dlopen)].
DynamicLibrary_load(path, env) ==
    IF ~to_str(path).some THEN [result |-> Err("InvalidInput"), dlopens |-> 0]
    ELSE IF CString_new(to_str(path).v).tag # "Ok"
         THEN [result |-> Err("InvalidInput"), dlopens |-> 0]
    ELSE IF env.dlopen THEN [result |-> Ok(<<>>), dlopens |-> 1]
    ELSE [result |-> dlerror_path(env), dlopens |-> 1]

\* DynamicLibrary::resolve_symbol(name)
resolve_symbol(name, env) ==
    IF CString_new(<<name>>).tag # "Ok" THEN Err("InvalidInput")
    ELSE IF name \in env.exports THEN Ok(<<>>)
    ELSE dlerror_path(env)

\* A resolution that goes on past a symbol that does not resolve.
RECURSIVE resolve_from_lenient(_, _, _, _)
resolve_from_lenient(i, env, attempts, funs) ==
    IF i > Len(Symbols) THEN [result |-> Ok(<<>>), attempts |-> attempts, funs |-> funs]
    ELSE resolve_from_lenient(i + 1, env, Append(attempts, Symbols[i]),
             IF resolve_symbol(Symbols[i], env).tag = "Ok" THEN funs \cup {Symbols[i]} ELSE funs)

\* The ClrFunctions literal of build(): the four symbols are resolved in field
\* order and the first failure leaves through `try!`.  [result, attempts (the
\* names passed to resolve_symbol), funs (the names resolved)].
RECURSIVE resolve_from(_, _, _, _)
resolve_from(i, env, attempts, funs) ==
    IF i > Len(Symbols) THEN [result |-> Ok(<<>>), attempts |-> attempts, funs |-> funs]
    ELSE LET r == resolve_symbol(Symbols[i], env)
         IN  IF r.tag = "Ok"
             THEN resolve_from(i + 1, env, Append(attempts, Symbols[i]), funs \cup {Symbols[i]})
             ELSE [result |-> r, attempts |-> Append(attempts, Symbols[i]), funs |-> funs]

ClrFunctions_resolve(env) == resolve_from(1, env, <<>>, {})

----------------------------------------------------------------------------
(* ClrHostBuilder::build. *)

\* The platform the crate is compiled for (cfg!(target_os = ..)).
TargetOs == "linux"

\* The file name build() pushes on the runtime directory (one token of text).
lib_file_name(os) ==
    IF os = "macos" THEN <<"libcoreclr.dylib">>
    ELSE IF os = "linux" THEN <<"libcoreclr.so">>
    ELSE <<"coreclr.dll">>

\* A native_search_path loop that separates paths as the probe_paths loop does.
RECURSIVE native_search_loop_skip_empty(_, _, _)
native_search_loop_skip_empty(paths, i, acc) ==
    IF i > Len(paths) THEN Ok(acc)
    ELSE IF to_str(paths[i]).some
         THEN native_search_loop_skip_empty(paths, i + 1,
                  IF Len(to_str(paths[i]).v) # 0
                  THEN push_str(push_str(acc, <<":">>), to_str(paths[i]).v)
                  ELSE acc)
         ELSE Err("InvalidInput")

\* The native_search_path loop of build(): Ok(text) or the InvalidInput error.
RECURSIVE native_search_loop(_, _, _)
native_search_loop(paths, i, acc) ==
    IF i > Len(paths) THEN Ok(acc)
    ELSE IF to_str(paths[i]).some
         THEN native_search_loop(paths, i + 1, push_str(push_str(acc, <<":">>), to_str(paths[i]).v))
         ELSE Err("InvalidInput")

native_search_path(coreclr_path, paths) ==
    native_search_loop(paths, 1, push_str(<<>>, coreclr_path))

\* A probe_paths loop that skips a path that is not valid UTF-8.
RECURSIVE probe_paths_loop_lossy(_, _, _)
probe_paths_loop_lossy(paths, i, acc) ==
    IF i > Len(paths) THEN Ok(acc)
    ELSE IF to_str(paths[i]).some
         THEN probe_paths_loop_lossy(paths, i + 1,
                  push_str(IF Len(acc) # 0 THEN push_str(acc, <<":">>) ELSE acc,
                           to_str(paths[i]).v))
         ELSE probe_paths_loop_lossy(paths, i + 1, acc)

\* The probe_paths loop of build(): a ':' is pushed before a path only when
\* the text built so far is not empty.
RECURSIVE probe_paths_loop(_, _, _)
probe_paths_loop(paths, i, acc) ==
    IF i > Len(paths) THEN Ok(acc)
    ELSE IF to_str(paths[i]).some
         THEN probe_paths_loop(paths, i + 1,
                  push_str(IF Len(acc) # 0 THEN push_str(acc, <<":">>) ELSE acc,
                           to_str(paths[i]).v))
         ELSE Err("InvalidInput")

probe_paths(paths) == probe_paths_loop(paths, 1, <<>>)

\* "true" / "false" for a GC flag (one token of text).
gc_flag_text(flag) == IF flag THEN <<"true">> ELSE <<"false">>

property_keys ==
    << "TRUSTED_PLATFORM_ASSEMBLIES", "APP_PATHS", "APP_NI_PATHS",
       "NATIVE_DLL_SEARCH_DIRECTORIES", "AppDomainCompatSwitch",
       "System.GC.Server", "System.GC.Concurrent" >>

\* A property_values vector with the native search path in the place of APP_NI_PATHS.
property_values_misplaced(tpa, probe, native, server_gc, concurrent_gc) ==
    << tpa, probe, native, probe, <<"UseLatestBehaviorWhenTFMNotSpecified">>,
       gc_flag_text(server_gc), gc_flag_text(concurrent_gc) >>

\* The property_values vector; each element went through CString::new(..).unwrap().
property_values(tpa, probe, native, server_gc, concurrent_gc) ==
    << tpa, probe, probe, native, <<"UseLatestBehaviorWhenTFMNotSpecified">>,
       gc_flag_text(server_gc), gc_flag_text(concurrent_gc) >>

NoArgs == [exePath |-> <<>>, name |-> <<>>, count |-> 0, keys |-> <<>>, values |-> <<>>]
NoHost ==
    [ state |-> "None", coreclr |-> FALSE, coreclr_funs |-> {},
      coreclr_handle |-> 0, domain_id |-> 0, shutdowns |-> 0, dlcloses |-> 0 ]

\* The environment of a build() call.
Env(dlopen, dlerr, exports, listing, code, handle, domain) ==
    [ dlopen |-> dlopen, dlerr |-> dlerr, exports |-> exports, listing |-> listing,
      init |-> [code |-> code, handle |-> handle, domain |-> domain] ]

NoEnv == Env(FALSE, "err", {}, ListingErr(0), 0, 0, 0)

\* A build() that has done nothing yet.
NoBuild ==
    [ env |-> NoEnv, result |-> NoResult, dlopens |-> 0, loaded |-> FALSE, attempts |-> <<>>,
      funs |-> {}, scans |-> 0, tpa |-> NoResult, initCalls |-> 0,
      initArgs |-> NoArgs, dlcloses |-> 0, shutdowns |-> 0, host |-> NoHost ]

\* Leaving build() without dropping `lib`.
build_leave_leaky(rec, r) ==
    [rec EXCEPT !.result = r, !.dlcloses = 0]

\* Leaving build() with `r` while `rec.loaded` says whether `lib` is in scope:
\* an error return or a panic drops `lib` (dlclose); a terminated process drops nothing.
build_leave(rec, r) ==
    [rec EXCEPT !.result = r,
                !.dlcloses = IF rec.loaded /\ r.tag \in {"Err", "Panic"} THEN 1 ELSE 0]

\* An initializer call whose result code is not looked at.
build_initialize_unchecked(rec, env, assembly, name, keys, values) ==
    [rec EXCEPT !.initCalls = 1,
                !.initArgs = [exePath |-> assembly, name |-> name,
                              count |-> Len(keys), keys |-> keys, values |-> values],
                !.result = Ok(<<>>),
                !.host = [ state |-> "Initialized",
                           coreclr |-> TRUE,
                           coreclr_funs |-> rec.funs,
                           coreclr_handle |-> env.init.handle,
                           domain_id |-> c_uint_as_usize(env.init.domain),
                           shutdowns |-> 0, dlcloses |-> 0 ]]

\* build() from the initializer call on (lines 321-346).
build_initialize(rec, env, assembly, name, keys, values) ==
    LET called == [rec EXCEPT !.initCalls = 1,
                              !.initArgs = [exePath |-> assembly, name |-> name,
                                            count |-> Len(keys), keys |-> keys,
                                            values |-> values]]
    IN  IF env.init.code # 0
        THEN build_leave(called, from_raw_os_error(env.init.code))
        ELSE [called EXCEPT !.result = Ok(<<>>),
                            !.host = [ state |-> "Initialized",
                                       coreclr |-> TRUE,
                                       coreclr_funs |-> rec.funs,
                                       coreclr_handle |-> env.init.handle,
                                       domain_id |-> c_uint_as_usize(env.init.domain),
                                       shutdowns |-> 0, dlcloses |-> 0 ]]

\* build() from the CString conversions on (lines 280-319).
build_properties(b, rec, env, assembly_path, native, probe, tpa) ==
    IF CString_new(assembly_path).tag # "Ok" THEN build_leave(rec, Panic)
    ELSE LET name == IF b.appdomain_name.some THEN CString_new(b.appdomain_name.v)
                     ELSE CString_new(<<"rust_coreclr_host">>)
             values == property_values(tpa, probe, native, b.server_gc, b.concurrent_gc)
         IN  IF name.tag # "Ok" THEN build_leave(rec, name)
             ELSE IF \/ CString_new(tpa).tag # "Ok"
                     \/ CString_new(probe).tag # "Ok"
                     \/ CString_new(native).tag # "Ok"
                  THEN build_leave(rec, Panic)
             ELSE IF Len(property_keys) # Len(values) THEN build_leave(rec, Panic)
             ELSE build_initialize(rec, env, assembly_path, name.val, property_keys, values)

\* build() from the library load on (lines 242-278).
build_load(b, env, coreclr_path, assembly_path, native) ==
    LET actual_path == b.coreclr_path.v
        L == DynamicLibrary_load(PathPush(actual_path, lib_file_name(TargetOs)), env)
        loaded == [NoBuild EXCEPT !.dlopens = L.dlopens, !.loaded = (L.result.tag = "Ok")]
    IN  IF L.result.tag # "Ok" THEN build_leave(loaded, L.result)
        ELSE LET R == ClrFunctions_resolve(env)
                 resolved == [loaded EXCEPT !.attempts = R.attempts, !.funs = R.funs]
             IN  IF R.result.tag # "Ok" THEN build_leave(resolved, R.result)
                 ELSE LET P == probe_paths(b.assembly_load_paths)
                      IN  IF P.tag # "Ok" THEN build_leave(resolved, P)
                          ELSE LET T == build_tpas(actual_path, env.listing)
                                   scanned == [resolved EXCEPT !.scans = 1, !.tpa = T]
                               IN  IF T.tag # "Ok" THEN build_leave(scanned, T)
                                   ELSE build_properties(b, scanned, env, assembly_path,
                                                         native, P.val, T.val)

\* A build() that loads the library before it validates the entry assembly.
build_assembly_checked_late(b, env) ==
    IF ~b.coreclr_path.some THEN build_leave(NoBuild, Err("NotFound"))
    ELSE IF ~to_str(b.coreclr_path.v).some THEN build_leave(NoBuild, Err("InvalidInput"))
    ELSE IF ~b.assembly.some \/ ~to_str(b.assembly.v).some
         THEN LET L == DynamicLibrary_load(PathPush(b.coreclr_path.v, lib_file_name(TargetOs)), env)
                  loaded == [NoBuild EXCEPT !.dlopens = L.dlopens,
                                            !.loaded = (L.result.tag = "Ok")]
              IN  build_leave(loaded,
                      IF L.result.tag # "Ok" THEN L.result
                      ELSE IF ~b.assembly.some THEN Err("NotFound")
                      ELSE Err("InvalidInput"))
    ELSE LET coreclr_path == to_str(b.coreclr_path.v).v
             assembly_path == to_str(b.assembly.v).v
             N == native_search_path(coreclr_path, b.native_library_search_paths)
         IN  IF N.tag # "Ok" THEN build_leave(NoBuild, N)
             ELSE build_load(b, env, coreclr_path, assembly_path, N.val)

\* A build() that reports a missing entry assembly as InvalidInput.
build_missing_assembly_invalid(b, env) ==
    IF ~b.coreclr_path.some THEN build_leave(NoBuild, Err("NotFound"))
    ELSE IF ~to_str(b.coreclr_path.v).some THEN build_leave(NoBuild, Err("InvalidInput"))
    ELSE IF ~b.assembly.some THEN build_leave(NoBuild, Err("InvalidInput"))
    ELSE IF ~to_str(b.assembly.v).some THEN build_leave(NoBuild, Err("InvalidInput"))
    ELSE LET coreclr_path == to_str(b.coreclr_path.v).v
             assembly_path == to_str(b.assembly.v).v
             N == native_search_path(coreclr_path, b.native_library_search_paths)
         IN  IF N.tag # "Ok" THEN build_leave(NoBuild, N)
             ELSE build_load(b, env, coreclr_path, assembly_path, N.val)

\* ClrHostBuilder::build(&self): what the call does and returns, as a record.
build(b, env) ==
    IF ~b.coreclr_path.some THEN build_leave(NoBuild, Err("NotFound"))
    ELSE IF ~to_str(b.coreclr_path.v).some THEN build_leave(NoBuild, Err("InvalidInput"))
    ELSE IF ~b.assembly.some THEN build_leave(NoBuild, Err("NotFound"))
    ELSE IF ~to_str(b.assembly.v).some THEN build_leave(NoBuild, Err("InvalidInput"))
    ELSE LET coreclr_path == to_str(b.coreclr_path.v).v
             assembly_path == to_str(b.assembly.v).v
             N == native_search_path(coreclr_path, b.native_library_search_paths)
         IN  IF N.tag # "Ok" THEN build_leave(NoBuild, N)
             ELSE build_load(b, env, coreclr_path, assembly_path, N.val)

----------------------------------------------------------------------------
(* ClrHost: the calls made through it and its drop. *)

\* An argument loop that leaves out an argument with an interior NUL.
RECURSIVE argv_loop_lossy(_, _, _)
argv_loop_lossy(args, i, argv) ==
    IF i > Len(args) THEN Ok(argv)
    ELSE IF CString_new(args[i]).tag = "Ok"
         THEN argv_loop_lossy(args, i + 1, Append(argv, CString_new(args[i]).val))
         ELSE argv_loop_lossy(args, i + 1, argv)

\* The CString conversions of execute_assembly_impl (lines 102-111): the
\* arguments in order, then the assembly path.
RECURSIVE argv_loop(_, _, _)
argv_loop(args, i, argv) ==
    IF i > Len(args) THEN Ok(argv)
    ELSE IF CString_new(args[i]).tag = "Ok"
         THEN argv_loop(args, i + 1, Append(argv, CString_new(args[i]).val))
         ELSE CString_new(args[i])

execute_assembly_encode(args, assembly_path) ==
    LET argv == argv_loop(args, 1, <<>>)
    IN  IF argv.tag # "Ok" THEN argv
        ELSE IF ~to_str(assembly_path).some THEN Err("InvalidInput")
        ELSE IF CString_new(to_str(assembly_path).v).tag # "Ok"
             THEN CString_new(to_str(assembly_path).v)
        ELSE Ok([argv |-> argv.val, path |-> to_str(assembly_path).v])

\* A result translation that ignores the export's result code.
execute_assembly_result_unchecked(result, return_code) ==
    Ok(c_uint_as_usize(return_code))

\* The result translation of execute_assembly_impl (lines 123-127).
execute_assembly_result(result, return_code) ==
    IF result # 0 THEN from_raw_os_error(result)
    ELSE Ok(c_uint_as_usize(return_code))

\* What becomes of an unwind that leaves the executor export.  The export is
\* called through an `extern "C" fn` pointer, so an unwind out of it is undefined
\* behaviour: catch_unwind may intercept it, or the process is terminated.
UnwindOutcomes == {"caught", "abort"}

\* The `match` of execute_assembly on what catch_unwind gave (lines 94-98): the
\* result of execute_assembly_impl as it is, the "unhandled CLR exception" error
\* of kind Other for an intercepted unwind.
execute_assembly_match(r) ==
    IF r.tag = "Panic" THEN Err("Other") ELSE r

\* Conversions that leave the type name unchecked.
create_delegate_encode_no_ty(assembly_name, type_name, method) ==
    IF CString_new(assembly_name).tag # "Ok" THEN CString_new(assembly_name)
    ELSE IF CString_new(method).tag # "Ok" THEN CString_new(method)
    ELSE Ok([assembly |-> assembly_name, ty |-> type_name, method |-> method])

\* The CString conversions of create_delegate (lines 71-73).
create_delegate_encode(assembly_name, type_name, method) ==
    IF CString_new(assembly_name).tag # "Ok" THEN CString_new(assembly_name)
    ELSE IF CString_new(type_name).tag # "Ok" THEN CString_new(type_name)
    ELSE IF CString_new(method).tag # "Ok" THEN CString_new(method)
    ELSE Ok([assembly |-> assembly_name, ty |-> type_name, method |-> method])

\* The result translation of create_delegate (lines 81-85).
create_delegate_result(result, delegate) ==
    IF result # 0 THEN from_raw_os_error(result) ELSE Ok(delegate)

\* A call through a ClrHost: op is the operation, host the slot of the ClrHost,
\* inputs what the caller passed (args: the arguments of execute_assembly, or
\* the assembly, type and method names of create_delegate; path: the assembly
\* path), phase is "foreign" while the export is running ("idle" once it has
\* returned or when it was not invoked, "caught" once an unwind out of it was
\* intercepted), invoked counts the export's invocations by this call, args are
\* the arguments the export was given, ret what the export answered, result what
\* the operation returned (Abort when the process was terminated inside it).
NoForeignArgs == [handle |-> 0, domain |-> 0, texts |-> <<>>, argc |-> 0]
NoInputs == [args |-> <<>>, path |-> <<>>]
NoCall ==
    [ op |-> "none", host |-> 0, inputs |-> NoInputs, phase |-> "idle", invoked |-> 0,
      args |-> NoForeignArgs, ret |-> [code |-> 0, out |-> 0], result |-> NoResult ]

\* The thread is inside an export.
Busy == lastCall.phase = "foreign"

FreeSlots == {h \in 1..MaxHosts : hosts[h].state = "None"}
LiveHosts == {h \in 1..MaxHosts : hosts[h].state = "Initialized"}

\* ClrHost::drop that does not call the shutdown export.
ClrHost_drop_no_shutdown(host) ==
    [host EXCEPT !.state = "ShuttingDown"]

\* impl Drop for ClrHost: the shutdown export is called with the stored handle
\* and domain id.
ClrHost_drop(host) ==
    [host EXCEPT !.state = "ShuttingDown", !.shutdowns = @ + 1]

\* A drop after which the ClrHost can be called through again.
DynamicLibrary_drop_reusable(host) ==
    [host EXCEPT !.state = "Initialized", !.coreclr = FALSE, !.dlcloses = @ + 1]

\* The drop of the ClrHost's fields after ClrHost::drop has returned:
\* impl Drop for DynamicLibrary calls dlclose on the `coreclr` field.
DynamicLibrary_drop(host) ==
    [host EXCEPT !.state = "Released", !.coreclr = FALSE, !.dlcloses = @ + 1]

----------------------------------------------------------------------------
(* The state after ClrHostBuilder::new(). *)

Init ==
    /\ builder = ClrHostBuilder_default
    /\ lastServerOp = "none"
    /\ lastConcOp = "none"
    /\ lastBuild = NoBuild
    /\ hosts = [h \in 1..MaxHosts |-> NoHost]
    /\ lastCall = NoCall
    /\ dlRefs = 0
    /\ alive = TRUE

\* The host program is single-threaded (ClrHost holds raw pointers, so it is
\* neither Send nor Sync): a new operation starts only when no export is running.
Ready == alive /\ ~Busy

----------------------------------------------------------------------------
(* Builder calls. *)

WithServerGc ==
    /\ Ready
    /\ builder' = with_server_gc(builder)
    /\ lastServerOp' = "with_server_gc"
    /\ lastBuild' = NoBuild
    /\ UNCHANGED <<lastConcOp, hosts, lastCall, dlRefs, alive>>

WithWorkstationGc ==
    /\ Ready
    /\ builder' = with_workstation_gc(builder)
    /\ lastServerOp' = "with_workstation_gc"
    /\ lastBuild' = NoBuild
    /\ UNCHANGED <<lastConcOp, hosts, lastCall, dlRefs, alive>>

WithConcurrentGc ==
    /\ Ready
    /\ builder' = with_concurrent_gc(builder)
    /\ lastConcOp' = "with_concurrent_gc"
    /\ lastBuild' = NoBuild
    /\ UNCHANGED <<lastServerOp, hosts, lastCall, dlRefs, alive>>

WithNonconcurrentGc ==
    /\ Ready
    /\ builder' = with_nonconcurrent_gc(builder)
    /\ lastConcOp' = "with_nonconcurrent_gc"
    /\ lastBuild' = NoBuild
    /\ UNCHANGED <<lastServerOp, hosts, lastCall, dlRefs, alive>>

WithCoreclrPath(path) ==
    /\ Ready
    /\ builder' = with_coreclr_path(builder, path)
    /\ lastBuild' = NoBuild
    /\ UNCHANGED <<lastServerOp, lastConcOp, hosts, lastCall, dlRefs, alive>>

WithAssemblyProbePath(path) ==
    /\ Ready
    /\ Len(builder.assembly_load_paths) < MaxProbePaths
    /\ builder' = with_assembly_probe_path(builder, path)
    /\ lastBuild' = NoBuild
    /\ UNCHANGED <<lastServerOp, lastConcOp, hosts, lastCall, dlRefs, alive>>

WithNativeLibraryProbePath(path) ==
    /\ Ready
    /\ Len(builder.native_library_search_paths) < MaxProbePaths
    /\ builder' = with_native_library_probe_path(builder, path)
    /\ lastBuild' = NoBuild
    /\ UNCHANGED <<lastServerOp, lastConcOp, hosts, lastCall, dlRefs, alive>>

WithAssembly(path) ==
    /\ Ready
    /\ builder' = with_assembly(builder, path)
    /\ lastBuild' = NoBuild
    /\ UNCHANGED <<lastServerOp, lastConcOp, hosts, lastCall, dlRefs, alive>>

WithAppdomainName(name) ==
    /\ Ready
    /\ builder' = with_appdomain_name(builder, name)
    /\ lastBuild' = NoBuild
    /\ UNCHANGED <<lastServerOp, lastConcOp, hosts, lastCall, dlRefs, alive>>

\* A build() that leaves the builder as ClrHostBuilder::new() gives it.
Build_consuming(env) ==
    \E r \in {build(builder, env)} :
        /\ Ready
        /\ r.result.tag = "Ok" => FreeSlots # {}
        /\ lastBuild' = [r EXCEPT !.env = env]
        /\ hosts' = IF r.result.tag = "Ok"
                    THEN [hosts EXCEPT ![CHOOSE h \in FreeSlots : \A g \in FreeSlots : h <= g] = r.host]
                    ELSE hosts
        /\ dlRefs' = dlRefs + (IF r.loaded THEN 1 ELSE 0) - r.dlcloses
        /\ alive' = (r.result.tag # "Abort")
        /\ builder' = ClrHostBuilder_default
        /\ UNCHANGED <<lastServerOp, lastConcOp, lastCall>>

\* build(): the ClrHost of a successful build takes the first free slot (a
\* build can succeed only while fewer than MaxHosts ClrHosts were created).
Build(env) ==
    \E r \in {build(builder, env)} :
        /\ Ready
        /\ r.result.tag = "Ok" => FreeSlots # {}
        /\ lastBuild' = [r EXCEPT !.env = env]
        /\ hosts' = IF r.result.tag = "Ok"
                    THEN [hosts EXCEPT ![CHOOSE h \in FreeSlots : \A g \in FreeSlots : h <= g] = r.host]
                    ELSE hosts
        /\ dlRefs' = dlRefs + (IF r.loaded THEN 1 ELSE 0) - r.dlcloses
        /\ alive' = (r.result.tag # "Abort")
        /\ UNCHANGED <<builder, lastServerOp, lastConcOp, lastCall>>

----------------------------------------------------------------------------
(* Calls through a ClrHost. *)

\* execute_assembly up to the executor export's invocation.
ExecuteAssembly(h, args, assembly_path) ==
    LET e == execute_assembly_encode(args, assembly_path)
    IN  /\ Ready
        /\ h \in LiveHosts
        /\ IF e.tag # "Ok"
           THEN /\ lastCall' = [NoCall EXCEPT
                                  !.op = "execute_assembly", !.host = h,
                                  !.inputs = [args |-> args, path |-> assembly_path],
                                  !.result = execute_assembly_match(e)]
                /\ hosts' = hosts
           ELSE /\ lastCall' = [NoCall EXCEPT
                                  !.op = "execute_assembly", !.host = h,
                                  !.inputs = [args |-> args, path |-> assembly_path],
                                  !.phase = "foreign", !.invoked = 1,
                                  !.args = [ handle |-> hosts[h].coreclr_handle,
                                             domain |-> usize_as_c_uint(hosts[h].domain_id),
                                             texts |-> Append(e.val.argv, e.val.path),
                                             argc |-> Len(e.val.argv) ]]
                /\ hosts' = [hosts EXCEPT ![h].state = "ExecutingCall"]
        /\ UNCHANGED <<builder, lastServerOp, lastConcOp, lastBuild, dlRefs, alive>>

\* The executor export returns `result` having written `return_code`.
ExecuteAssemblyReturn(result, return_code) ==
    /\ alive
    /\ Busy
    /\ lastCall.op = "execute_assembly"
    /\ lastCall' = [lastCall EXCEPT
                      !.phase = "idle",
                      !.ret = [code |-> result, out |-> return_code],
                      !.result = execute_assembly_match(
                                     execute_assembly_result(result, return_code))]
    /\ hosts' = [hosts EXCEPT ![lastCall.host].state = "Initialized"]
    /\ UNCHANGED <<builder, lastServerOp, lastConcOp, lastBuild, dlRefs, alive>>

\* The executor export does not return: an unwind leaves it.  When catch_unwind
\* intercepts it, execute_assembly returns the error of its `match`; otherwise
\* the process is terminated inside the call.
ExecuteAssemblyUnwind(outcome) ==
    /\ alive
    /\ Busy
    /\ lastCall.op = "execute_assembly"
    /\ IF outcome = "caught"
       THEN /\ lastCall' = [lastCall EXCEPT !.phase = "caught",
                                            !.result = execute_assembly_match(Panic)]
            /\ hosts' = [hosts EXCEPT ![lastCall.host].state = "Initialized"]
            /\ alive' = alive
       ELSE /\ lastCall' = [lastCall EXCEPT !.result = Abort]
            /\ hosts' = hosts
            /\ alive' = FALSE
    /\ UNCHANGED <<builder, lastServerOp, lastConcOp, lastBuild, dlRefs>>

\* create_delegate up to the delegate-creator export's invocation.
CreateDelegate(h, assembly_name, type_name, method) ==
    LET e == create_delegate_encode(assembly_name, type_name, method)
    IN  /\ Ready
        /\ h \in LiveHosts
        /\ IF e.tag # "Ok"
           THEN /\ lastCall' = [NoCall EXCEPT
                                  !.op = "create_delegate", !.host = h,
                                  !.inputs = [args |-> <<assembly_name, type_name, method>>,
                                              path |-> <<>>],
                                  !.result = e]
                /\ hosts' = hosts
           ELSE /\ lastCall' = [NoCall EXCEPT
                                  !.op = "create_delegate", !.host = h,
                                  !.inputs = [args |-> <<assembly_name, type_name, method>>,
                                              path |-> <<>>],
                                  !.phase = "foreign", !.invoked = 1,
                                  !.args = [ handle |-> hosts[h].coreclr_handle,
                                             domain |-> usize_as_c_int(hosts[h].domain_id),
                                             texts |-> <<e.val.assembly, e.val.ty, e.val.method>>,
                                             argc |-> 0 ]]
                /\ hosts' = [hosts EXCEPT ![h].state = "ExecutingCall"]
        /\ UNCHANGED <<builder, lastServerOp, lastConcOp, lastBuild, dlRefs, alive>>

\* The delegate-creator export returns `result` having written `delegate`.
CreateDelegateReturn(result, delegate) ==
    /\ alive
    /\ Busy
    /\ lastCall.op = "create_delegate"
    /\ lastCall' = [lastCall EXCEPT
                      !.phase = "idle",
                      !.ret = [code |-> result, out |-> delegate],
                      !.result = create_delegate_result(result, delegate)]
    /\ hosts' = [hosts EXCEPT ![lastCall.host].state = "Initialized"]
    /\ UNCHANGED <<builder, lastServerOp, lastConcOp, lastBuild, dlRefs, alive>>

\* The ClrHost goes out of scope: ClrHost::drop invokes the shutdown export.
Drop(h) ==
    /\ Ready
    /\ h \in LiveHosts
    /\ hosts' = [hosts EXCEPT ![h] = ClrHost_drop(hosts[h])]
    /\ lastCall' = [NoCall EXCEPT
                      !.op = "drop", !.host = h, !.phase = "foreign", !.invoked = 1,
                      !.args = [ handle |-> hosts[h].coreclr_handle,
                                 domain |-> usize_as_c_uint(hosts[h].domain_id),
                                 texts |-> <<>>, argc |-> 0 ]]
    /\ UNCHANGED <<builder, lastServerOp, lastConcOp, lastBuild, dlRefs, alive>>

\* The shutdown export returns (its result is discarded); the fields of the
\* ClrHost are dropped, which closes the library.
DropReturn(result) ==
    /\ alive
    /\ Busy
    /\ lastCall.op = "drop"
    /\ hosts' = [hosts EXCEPT ![lastCall.host] = DynamicLibrary_drop(hosts[lastCall.host])]
    /\ dlRefs' = dlRefs - (hosts'[lastCall.host].dlcloses - hosts[lastCall.host].dlcloses)
    /\ lastCall' = [lastCall EXCEPT !.phase = "idle", !.ret = [code |-> result, out |-> 0]]
    /\ UNCHANGED <<builder, lastServerOp, lastConcOp, lastBuild, alive>>

----------------------------------------------------------------------------
(* The inputs the operations are given. *)

DirOk == <<"/", "r">>
DirBad == <<"/", BAD>>
DirNul == <<"/", NUL>>
AsmOk == <<"/", "h">>
AsmBad == <<"/", "h", BAD>>
AsmNul == <<"/", "h", NUL>>
StrOk == <<"x">>
StrNul == <<"x", NUL>>
Dll == <<".", "d", "l", "l">>
Exe == <<".", "e", "x", "e">>

AllSymbols == Range(Symbols)

\* Result codes of the exports (libc::c_int), values the exports write to their
\* out-parameters, and OS error numbers of a failed directory read.
Codes == {0, 5, -3}
ExitCodes == {0, CUintMod - 1}
Delegates == {0, 9}
\* What the initializer writes to its out-parameters: <<hostHandle, domainId>>.
InitOutputs == {<<7, 1>>, <<0, CUintMod \div 2>>}
ArgLists == {<<>>, <<StrOk>>, <<StrNul>>, <<StrOk, StrOk>>, <<StrOk, StrNul>>}
Errnos == {13}

MainListing == Listing(<<DirEntry(<<"m">> \o Dll)>>)

\* Sequences over S of length at most n.
SeqsUpTo(S, n) == UNION {[1..k -> S] : k \in 0..n}

----------------------------------------------------------------------------
(* Spec: a builder given its two required paths, builds, and the life of the *)
(* ClrHosts they return.                                                     *)

\* The environments of a build, by the step that decides it: the load fails;
\* one export is missing; everything resolves and the initializer answers.
LoadFailEnvs(listing) ==
    {Env(FALSE, e, AllSymbols, listing, 0, 7, 1) : e \in DlErrOutcomes}

ResolveFailEnvs(exports, listing) ==
    {Env(TRUE, e, x, listing, 0, 7, 1) : e \in DlErrOutcomes, x \in exports}

InitEnvs(listings, codes, outputs) ==
    {Env(TRUE, "err", AllSymbols, l, c, o[1], o[2]) :
        l \in listings, c \in codes, o \in outputs}

MissingOne == {AllSymbols \ {sym} : sym \in AllSymbols}

HostEnvs ==
    LoadFailEnvs(MainListing)
        \cup ResolveFailEnvs(MissingOne \cup {{}, {"coreclr_initialize"}}, MainListing)
        \cup InitEnvs({MainListing}, Codes, InitOutputs)

Next ==
    \/ WithCoreclrPath(DirOk)
    \/ WithAssembly(AsmOk)
    \/ \E env \in HostEnvs : Build(env)
    \/ \E h \in 1..MaxHosts, args \in ArgLists,
          path \in {AsmOk, AsmBad, AsmNul} : ExecuteAssembly(h, args, path)
    \/ \E c \in Codes, x \in ExitCodes : ExecuteAssemblyReturn(c, x)
    \/ \E o \in UnwindOutcomes : ExecuteAssemblyUnwind(o)
    \/ \E h \in 1..MaxHosts, a \in {StrOk, StrNul}, t \in {StrOk, StrNul},
          m \in {StrOk, StrNul} : CreateDelegate(h, a, t, m)
    \/ \E c \in Codes, d \in Delegates : CreateDelegateReturn(c, d)
    \/ \E h \in 1..MaxHosts : Drop(h)
    \/ \E c \in Codes : DropReturn(c)

Spec == Init /\ [][Next]_vars

----------------------------------------------------------------------------
(* SpecBuilder: the builder calls that set paths and the domain name or     *)
(* leave the default GC mode, and builds in every environment.               *)

BuilderEnvs ==
    LoadFailEnvs(MainListing)
        \cup ResolveFailEnvs({AllSymbols \ {"coreclr_shutdown"}, {}}, MainListing)
        \cup InitEnvs({MainListing}, {0, 5}, {<<7, 1>>})
        \cup InitEnvs({ListingErr(e) : e \in Errnos}, {0}, {<<7, 1>>})

NextBuilder ==
    \/ WithServerGc
    \/ WithNonconcurrentGc
    \/ \E p \in {DirOk, DirBad, DirNul} : WithCoreclrPath(p)
    \/ \E p \in {AsmOk, AsmBad, AsmNul} : WithAssembly(p)
    \/ \E p \in {StrOk, <<BAD>>} : WithAssemblyProbePath(p)
    \/ \E p \in {<<BAD>>} : WithNativeLibraryProbePath(p)
    \/ \E n \in {StrNul} : WithAppdomainName(n)
    \/ \E env \in BuilderEnvs : Build(env)

SpecBuilder == Init /\ [][NextBuilder]_vars

----------------------------------------------------------------------------
(* SpecGc: the GC option calls on a builder that gets its required paths,    *)
(* and builds that reach the initializer.                                    *)

GcEnvs == InitEnvs({MainListing}, {0, 5}, {<<7, 1>>})

NextGc ==
    \/ WithServerGc
    \/ WithWorkstationGc
    \/ WithConcurrentGc
    \/ WithNonconcurrentGc
    \/ WithCoreclrPath(DirOk)
    \/ WithAssembly(AsmOk)
    \/ \E env \in GcEnvs : Build(env)

SpecGc == Init /\ [][NextGc]_vars

----------------------------------------------------------------------------
(* SpecPaths: probing paths added to a builder that has its required paths,  *)
(* and builds in an environment in which every step succeeds.                *)

InitConfigured ==
    /\ builder = with_assembly(with_coreclr_path(ClrHostBuilder_default, DirOk), AsmOk)
    /\ lastServerOp = "none"
    /\ lastConcOp = "none"
    /\ lastBuild = NoBuild
    /\ hosts = [h \in 1..MaxHosts |-> NoHost]
    /\ lastCall = NoCall
    /\ dlRefs = 0
    /\ alive = TRUE

PathTexts == {<<>>, <<"a">>, <<"b">>, <<"c", ":">>}

\* Every step succeeds up to the initializer, which answers with code 5.
PathsEnvs == InitEnvs({MainListing}, {5}, {<<7, 1>>})

NextPaths ==
    \/ \E p \in PathTexts : WithAssemblyProbePath(p)
    \/ \E p \in PathTexts : WithNativeLibraryProbePath(p)
    \/ \E env \in PathsEnvs : Build(env)

SpecPaths == InitConfigured /\ [][NextPaths]_vars

----------------------------------------------------------------------------
(* SpecScan: builds of a configured builder over the directory listings.     *)

FileNames ==
    { <<"a">> \o Dll, <<"b">> \o Exe, <<"c", ".", "t", "x", "t">>, Dll,
      <<"a", ".", "D", "L", "L">>, <<BAD>> \o Dll, <<"e", "x", "e">> }

Listings ==
    {Listing(es) : es \in SeqsUpTo({DirEntry(n) : n \in FileNames}, MaxEntries)}
        \cup {Listing(<<DirEntry(<<"a">> \o Dll), DirEntryErr(e)>>) : e \in Errnos}
        \cup {ListingErr(e) : e \in Errnos}

ScanEnvs == InitEnvs(Listings, {5}, {<<7, 1>>})

NextScan ==
    \/ \E env \in ScanEnvs : Build(env)

SpecScan == InitConfigured /\ [][NextScan]_vars

----------------------------------------------------------------------------
(* Properties. *)

Built == lastBuild.result.tag # "None"
IsErr(r, k) == r.tag = "Err" /\ r.kind = k
HasNul(t) == NUL \in Range(t)
HasBad(t) == BAD \in Range(t)

\* C1: over the life of every ClrHost a successful build() returned, whatever
\* calls were made through it, the shutdown export is invoked exactly once and
\* dlclose exactly once, and dlclose only after the shutdown call has returned:
\* before the drop neither has happened; while the shutdown export runs it was
\* invoked once and the library is still open; once released both happened once.
C1_ShutdownOnceThenRelease ==
    \A h \in 1..MaxHosts :
        /\ hosts[h].shutdowns <= 1
        /\ hosts[h].dlcloses <= 1
        /\ hosts[h].state \in {"None", "Initialized", "ExecutingCall"}
            => hosts[h].shutdowns = 0 /\ hosts[h].dlcloses = 0
        /\ hosts[h].state \in {"Initialized", "ExecutingCall"} => hosts[h].coreclr
        /\ hosts[h].state = "ShuttingDown"
            => /\ hosts[h].shutdowns = 1 /\ hosts[h].dlcloses = 0 /\ hosts[h].coreclr
               /\ Busy /\ lastCall.op = "drop" /\ lastCall.host = h
        /\ hosts[h].state = "Released"
            => /\ hosts[h].shutdowns = 1 /\ hosts[h].dlcloses = 1 /\ ~hosts[h].coreclr
               /\ ~(Busy /\ lastCall.op = "drop" /\ lastCall.host = h)
        /\ hosts[h].dlcloses > 0 => hosts[h].state = "Released"

\* A ClrHost was released after its shutdown export had returned.
C1_Witness ==
    \E h \in 1..MaxHosts :
        /\ hosts[h].state = "Released"
        /\ lastCall.op = "drop" /\ lastCall.host = h /\ ~Busy
        /\ hosts[h].shutdowns = 1 /\ hosts[h].dlcloses = 1

\* C2: a ClrHost's life is Initialized -> {ExecutingCall}* -> ShuttingDown ->
\* Released: every step keeps its state or moves it along one of these edges, an
\* export is invoked through it only from Initialized (execute_assembly and
\* create_delegate put it in ExecutingCall and their return puts it back to
\* Initialized), and from ShuttingDown or Released it never gets back to
\* Initialized and no export is invoked through it.
LifecycleEdges ==
    { <<"None", "Initialized">>, <<"Initialized", "ExecutingCall">>,
      <<"ExecutingCall", "Initialized">>, <<"Initialized", "ShuttingDown">>,
      <<"ShuttingDown", "Released">> }

C2_Step ==
    \A h \in 1..MaxHosts :
        /\ \/ hosts'[h].state = hosts[h].state
           \/ <<hosts[h].state, hosts'[h].state>> \in LifecycleEdges
        /\ (~Busy /\ Busy' /\ lastCall'.host = h)
            => /\ hosts[h].state = "Initialized"
               /\ lastCall'.op \in {"execute_assembly", "create_delegate"}
                    => hosts'[h].state = "ExecutingCall"
               /\ lastCall'.op = "drop" => hosts'[h].state = "ShuttingDown"
        /\ (Busy /\ ~Busy' /\ lastCall.host = h
                 /\ lastCall.op \in {"execute_assembly", "create_delegate"})
            => hosts'[h].state = "Initialized"
        /\ hosts[h].state \in {"ShuttingDown", "Released"}
            => /\ hosts'[h].state \in {"ShuttingDown", "Released"}
               /\ ~(~Busy /\ Busy' /\ lastCall'.host = h)
               /\ lastCall'.invoked > lastCall.invoked => lastCall'.host # h

C2_Lifecycle == [][C2_Step]_vars

\* A ClrHost is Released after its shutdown call returned.
C2_Witness ==
    \E h \in 1..MaxHosts :
        hosts[h].state = "Released" /\ ~Busy /\ lastCall.op = "drop" /\ lastCall.ret.code # 0

\* C3: when the executor (the delegate creator) has returned a nonzero code c
\* the operation's result is an error whose OS error number is c; when it has
\* returned zero the result is Ok of the value written to the out-parameter.
C3_ResultTranslation ==
    (lastCall.op \in {"execute_assembly", "create_delegate"}
        /\ lastCall.phase = "idle" /\ lastCall.invoked = 1)
    => /\ lastCall.ret.code # 0
            => /\ lastCall.result.tag = "Err"
               /\ lastCall.result.kind = "Os"
               /\ lastCall.result.code = lastCall.ret.code
       /\ lastCall.ret.code = 0
            => /\ lastCall.result.tag = "Ok"
               /\ lastCall.result.val = lastCall.ret.out
               /\ lastCall.result.val >= 0

\* The executor returned a nonzero code and the call has returned.
C3_Witness ==
    /\ lastCall.op = "execute_assembly"
    /\ lastCall.phase = "idle" /\ lastCall.invoked = 1
    /\ lastCall.ret.code < 0
    /\ lastCall.result.code = lastCall.ret.code

\* C6: a create_delegate call given an assembly, type or method name with an
\* interior NUL has returned an InvalidInput error without invoking the
\* delegate-creator export, and its ClrHost is still Initialized.
C6_DelegateNameNotEncodable ==
    (lastCall.op = "create_delegate"
        /\ \E i \in 1..3 : HasNul(lastCall.inputs.args[i]))
    => /\ lastCall.phase = "idle"
       /\ IsErr(lastCall.result, "InvalidInput")
       /\ lastCall.invoked = 0
       /\ hosts[lastCall.host].state = "Initialized"
       /\ lastCall.host \in LiveHosts

\* create_delegate was refused for its type name alone.
C6_Witness ==
    /\ lastCall.op = "create_delegate"
    /\ HasNul(lastCall.inputs.args[2])
    /\ ~HasNul(lastCall.inputs.args[1]) /\ ~HasNul(lastCall.inputs.args[3])
    /\ IsErr(lastCall.result, "InvalidInput")

\* C10: a build() in which the library loaded and one of the four exports does
\* not resolve fails without calling any export (no initializer call) and
\* returns no ClrHost; and every ClrHost that exists holds all four exports.
C10_FunctionTableAllOrNothing ==
    /\ (Built /\ lastBuild.loaded /\ lastBuild.env.exports # AllSymbols)
        => /\ lastBuild.result.tag # "Ok"
           /\ lastBuild.initCalls = 0
           /\ lastBuild.shutdowns = 0
           /\ lastBuild.host = NoHost
    /\ (Built /\ lastBuild.result.tag = "Ok") => lastBuild.funs = AllSymbols
    /\ \A h \in 1..MaxHosts :
          hosts[h].state # "None" => hosts[h].coreclr_funs = AllSymbols

\* A build failed after resolving some but not all of the exports.
C10_Witness ==
    /\ Built
    /\ lastBuild.funs # {} /\ lastBuild.funs # AllSymbols
    /\ lastBuild.result.tag = "Err"
    /\ lastBuild.initCalls = 0

\* What the builder holds.
CoreUnset == ~builder.coreclr_path.some
CoreBad == builder.coreclr_path.some /\ HasBad(builder.coreclr_path.v)
CoreText == builder.coreclr_path.some /\ ~HasBad(builder.coreclr_path.v)
AsmUnset == ~builder.assembly.some
AsmIsBad == builder.assembly.some /\ HasBad(builder.assembly.v)
AsmText == builder.assembly.some /\ ~HasBad(builder.assembly.v)
ProbeBad == \E i \in DOMAIN builder.assembly_load_paths : HasBad(builder.assembly_load_paths[i])
NativeBad ==
    \E i \in DOMAIN builder.native_library_search_paths :
        HasBad(builder.native_library_search_paths[i])
AnyPathNotText == CoreBad \/ AsmIsBad \/ ProbeBad \/ NativeBad

\* C4 as claimed: build() has failed with NotFound whenever the runtime library
\* directory is unset, and with NotFound whenever the entry assembly is unset,
\* whatever the other options are.
C4_Original ==
    Built => /\ CoreUnset => IsErr(lastBuild.result, "NotFound")
             /\ AsmUnset => IsErr(lastBuild.result, "NotFound")

\* C4, amended: build() has failed with NotFound whenever the runtime library
\* directory is unset; with NotFound whenever the entry assembly is unset and
\* the runtime library directory is unset or is valid UTF-8; and with
\* InvalidInput when the entry assembly is unset and the runtime library
\* directory is set and is not valid UTF-8.  No library was loaded.
C4_MissingRequiredField ==
    Built => /\ CoreUnset => IsErr(lastBuild.result, "NotFound")
             /\ (AsmUnset /\ (CoreUnset \/ CoreText)) => IsErr(lastBuild.result, "NotFound")
             /\ (AsmUnset /\ CoreBad) => IsErr(lastBuild.result, "InvalidInput")
             /\ (CoreUnset \/ AsmUnset) => lastBuild.dlopens = 0 /\ lastBuild.host = NoHost

\* build() answered NotFound for the entry assembly alone, with other options set.
C4_Witness ==
    /\ Built /\ AsmUnset /\ CoreText
    /\ IsErr(lastBuild.result, "NotFound")
    /\ builder.appdomain_name.some
    /\ builder.server_gc
    /\ Len(builder.assembly_load_paths) > 0
    /\ Len(builder.native_library_search_paths) > 0

\* C5 as claimed: build() has failed with InvalidInput whenever a configured
\* path is not valid UTF-8, whatever the rest of the configuration and the
\* environment.
C5_Original ==
    (Built /\ AnyPathNotText) => IsErr(lastBuild.result, "InvalidInput")

\* C5, amended: build() never succeeds when a configured path is not valid
\* UTF-8.  The failure is InvalidInput when that path is the runtime library
\* directory; when the runtime library directory is valid and that path is the
\* entry assembly; when both required paths are valid and that path is a native
\* library probing path; and when both required paths and all native probing
\* paths are valid, the library load and the four symbol resolutions succeed,
\* and that path is an assembly probing path.  A missing required field that
\* build() checks first is reported as NotFound instead.
C5_PathNotText ==
    (Built /\ AnyPathNotText)
    => /\ lastBuild.result.tag # "Ok"
       /\ lastBuild.host = NoHost
       /\ CoreBad => IsErr(lastBuild.result, "InvalidInput")
       /\ (CoreText /\ AsmIsBad) => IsErr(lastBuild.result, "InvalidInput")
       /\ (CoreText /\ AsmText /\ NativeBad) => IsErr(lastBuild.result, "InvalidInput")
       /\ (CoreText /\ AsmText /\ ~NativeBad /\ ProbeBad
               /\ lastBuild.env.dlopen /\ ~HasNul(builder.coreclr_path.v)
               /\ lastBuild.env.exports = AllSymbols)
            => IsErr(lastBuild.result, "InvalidInput")
       /\ CoreUnset => IsErr(lastBuild.result, "NotFound")
       /\ (CoreText /\ AsmUnset) => IsErr(lastBuild.result, "NotFound")

\* build() answered InvalidInput for an assembly probing path, after the
\* library had been loaded and the exports resolved.
C5_Witness ==
    /\ Built /\ CoreText /\ AsmText /\ ~NativeBad /\ ProbeBad
    /\ lastBuild.loaded /\ lastBuild.funs = AllSymbols
    /\ IsErr(lastBuild.result, "InvalidInput")
    /\ lastBuild.dlcloses = 1

\* C7 as claimed: when build() has called the initializer and every assembly
\* probing path is text without NUL (empty paths included), the APP_PATHS value
\* is the paths joined with ':' in insertion order (N segments for N paths, the
\* empty text for none) and the APP_NI_PATHS value is the same text.
C7_Original ==
    (Built /\ lastBuild.initCalls = 1
        /\ \A i \in DOMAIN builder.assembly_load_paths :
              ~HasBad(builder.assembly_load_paths[i]) /\ ~HasNul(builder.assembly_load_paths[i]))
    => /\ lastBuild.initArgs.keys[2] = "APP_PATHS"
       /\ lastBuild.initArgs.keys[3] = "APP_NI_PATHS"
       /\ lastBuild.initArgs.values[2] = join(builder.assembly_load_paths, <<":">>)
       /\ lastBuild.initArgs.values[3] = lastBuild.initArgs.values[2]

\* C8: System.GC.Server is "true" iff the last call of its pair was
\* with_server_gc ("false" when neither was called) and System.GC.Concurrent is
\* "false" iff the last call of its pair was with_nonconcurrent_gc ("true" when
\* neither was called): for the builder's flags after every sequence of calls,
\* and for the values build() passes to the initializer.
C8_GcFlags ==
    /\ builder.server_gc <=> (lastServerOp = "with_server_gc")
    /\ builder.concurrent_gc <=> (lastConcOp # "with_nonconcurrent_gc")
    /\ lastBuild.initCalls = 1
        => /\ lastBuild.initArgs.keys[6] = "System.GC.Server"
           /\ lastBuild.initArgs.values[6] =
                 (IF lastServerOp = "with_server_gc" THEN <<"true">> ELSE <<"false">>)
           /\ lastBuild.initArgs.keys[7] = "System.GC.Concurrent"
           /\ lastBuild.initArgs.values[7] =
                 (IF lastConcOp = "with_nonconcurrent_gc" THEN <<"false">> ELSE <<"true">>)

\* The initializer was given server GC and non-concurrent GC.
C8_Witness ==
    /\ lastBuild.initCalls = 1
    /\ lastServerOp = "with_server_gc"
    /\ lastConcOp = "with_nonconcurrent_gc"
    /\ lastBuild.initArgs.values[6] = <<"true">>
    /\ lastBuild.initArgs.values[7] = <<"false">>

\* The text the trusted-assembly scan is claimed to give for the file names a
\* directory yields: the paths whose extension is exactly dll or exe, each once,
\* in order of first occurrence, joined with ':'.
WantedEntry(name) ==
    extension(name).some /\ extension(name).v \in {<<"d", "l", "l">>, <<"e", "x", "e">>}

RECURSIVE FirstOccurrences(_)
FirstOccurrences(seq) ==
    IF Len(seq) = 0 THEN <<>>
    ELSE LET front == SubSeq(seq, 1, Len(seq) - 1)
         IN  IF seq[Len(seq)] \in Range(front) THEN FirstOccurrences(front)
             ELSE Append(FirstOccurrences(front), seq[Len(seq)])

TpaWanted(dir, entries) ==
    LET names == [i \in DOMAIN entries |-> entries[i].name]
        wanted == SelectSeq(names, WantedEntry)
        paths == [i \in DOMAIN wanted |-> PathPush(dir, wanted[i])]
    IN  join(FirstOccurrences(paths), <<":">>)

Listable(listing) == listing.ok /\ \A i \in DOMAIN listing.entries : listing.entries[i].ok

\* C9 as claimed: for every directory that can be listed the scan returns the
\* ':'-joined text with one entry per distinct contained path of extension dll
\* or exe, in first-occurrence order, and nothing else.
C9_Original ==
    (Built /\ lastBuild.scans = 1 /\ Listable(lastBuild.env.listing))
    => lastBuild.tpa = Ok(TpaWanted(builder.coreclr_path.v, lastBuild.env.listing.entries))

\* C11 as claimed: when an unwind has left the executor export called by
\* execute_assembly, execute_assembly has returned the "unhandled CLR exception"
\* error (kind Other) to its caller (the call is over), and the ClrHost is
\* Initialized again, neither shut down nor released.
C11_Original ==
    (lastCall.op = "execute_assembly"
        /\ (lastCall.phase = "caught" \/ lastCall.result.tag = "Abort"))
    => /\ ~Busy
       /\ IsErr(lastCall.result, "Other")
       /\ hosts[lastCall.host].state = "Initialized"
       /\ hosts[lastCall.host].shutdowns = 0
       /\ hosts[lastCall.host].dlcloses = 0

\* C12: when build() has called the initializer: a nonzero result code c made
\* build() return the error with OS error number c and no ClrHost; a zero result
\* made it return a ClrHost that holds the library this build loaded (still
\* open), the four resolved exports, and the handle and the domain id the
\* initializer wrote to its out-parameters.
C12_InitializerResult ==
    (Built /\ lastBuild.initCalls = 1)
    => /\ lastBuild.env.init.code # 0
            => /\ lastBuild.result = from_raw_os_error(lastBuild.env.init.code)
               /\ lastBuild.host = NoHost
       /\ lastBuild.env.init.code = 0
            => /\ lastBuild.result.tag = "Ok"
               /\ lastBuild.host.state = "Initialized"
               /\ lastBuild.host.coreclr
               /\ lastBuild.dlopens = 1 /\ lastBuild.loaded /\ lastBuild.dlcloses = 0
               /\ lastBuild.host.coreclr_funs = lastBuild.funs
               /\ lastBuild.funs = AllSymbols
               /\ lastBuild.host.coreclr_handle = lastBuild.env.init.handle
               /\ lastBuild.host.domain_id = lastBuild.env.init.domain
               /\ \E h \in 1..MaxHosts :
                     /\ hosts[h].coreclr_handle = lastBuild.env.init.handle
                     /\ hosts[h].domain_id = lastBuild.env.init.domain
                     /\ hosts[h].coreclr_funs = AllSymbols

\* The initializer answered a nonzero code and build() returned it.
C12_Witness ==
    /\ Built /\ lastBuild.initCalls = 1
    /\ lastBuild.env.init.code = -3
    /\ lastBuild.result.code = -3
    /\ lastBuild.host = NoHost

\* The value build() computes for a property key from the builder and the scan.
PropertyValueOf(key) ==
    IF key = "TRUSTED_PLATFORM_ASSEMBLIES" THEN lastBuild.tpa.val
    ELSE IF key \in {"APP_PATHS", "APP_NI_PATHS"}
         THEN probe_paths(builder.assembly_load_paths).val
    ELSE IF key = "NATIVE_DLL_SEARCH_DIRECTORIES"
         THEN native_search_path(builder.coreclr_path.v,
                                 builder.native_library_search_paths).val
    ELSE IF key = "AppDomainCompatSwitch" THEN <<"UseLatestBehaviorWhenTFMNotSpecified">>
    ELSE IF key = "System.GC.Server" THEN gc_flag_text(builder.server_gc)
    ELSE gc_flag_text(builder.concurrent_gc)

\* C13: whenever build() has called the initializer it passed seven keys and
\* seven values and a propertyCount of seven, the keys being
\* TRUSTED_PLATFORM_ASSEMBLIES, APP_PATHS, APP_NI_PATHS,
\* NATIVE_DLL_SEARCH_DIRECTORIES, AppDomainCompatSwitch, System.GC.Server,
\* System.GC.Concurrent in this order and the value at each position the one of
\* the key at that position; and a build whose texts all convert reaches the
\* initializer (the count assertion does not fail).
C13_PropertyList ==
    /\ lastBuild.initCalls = 1
        => /\ Len(lastBuild.initArgs.keys) = 7
           /\ Len(lastBuild.initArgs.values) = 7
           /\ lastBuild.initArgs.count = 7
           /\ lastBuild.initArgs.keys =
                 << "TRUSTED_PLATFORM_ASSEMBLIES", "APP_PATHS", "APP_NI_PATHS",
                    "NATIVE_DLL_SEARCH_DIRECTORIES", "AppDomainCompatSwitch",
                    "System.GC.Server", "System.GC.Concurrent" >>
           /\ \A i \in 1..7 :
                 lastBuild.initArgs.values[i] = PropertyValueOf(lastBuild.initArgs.keys[i])
           /\ lastBuild.initArgs.values[5] = <<"UseLatestBehaviorWhenTFMNotSpecified">>
    /\ (Built /\ lastBuild.tpa.tag = "Ok"
            /\ ~HasNul(lastBuild.tpa.val)
            /\ ~HasNul(builder.assembly.v)
            /\ ~HasNul(builder.coreclr_path.v)
            /\ (builder.appdomain_name.some => ~HasNul(builder.appdomain_name.v))
            /\ \A i \in DOMAIN builder.assembly_load_paths :
                  ~HasNul(builder.assembly_load_paths[i])
            /\ \A j \in DOMAIN builder.native_library_search_paths :
                  ~HasNul(builder.native_library_search_paths[j]))
        => lastBuild.initCalls = 1 /\ lastBuild.result.tag # "Panic"

\* The initializer was given an APP_NI_PATHS value and a
\* NATIVE_DLL_SEARCH_DIRECTORIES value that differ, each from its own list.
C13_Witness ==
    /\ lastBuild.initCalls = 1
    /\ Len(builder.assembly_load_paths) = 2
    /\ Len(builder.native_library_search_paths) = 1
    /\ lastBuild.initArgs.values[3] = <<"a", ":", "b">>
    /\ lastBuild.initArgs.values[4] = <<"/", "r", ":", "c", ":">>

\* C14: when build() has called the initializer (every native probing path is
\* then valid UTF-8), the NATIVE_DLL_SEARCH_DIRECTORIES value is the runtime
\* library directory followed by the M native probing paths in insertion order,
\* joined with ':' (M + 1 segments; the directory alone when M = 0).
C14_NativeSearchPath ==
    (Built /\ lastBuild.initCalls = 1)
    => /\ \A i \in DOMAIN builder.native_library_search_paths :
             ~HasBad(builder.native_library_search_paths[i])
       /\ lastBuild.initArgs.keys[4] = "NATIVE_DLL_SEARCH_DIRECTORIES"
       /\ lastBuild.initArgs.values[4] =
             join(<<builder.coreclr_path.v>> \o builder.native_library_search_paths, <<":">>)
       /\ Len(builder.native_library_search_paths) = 0
            => lastBuild.initArgs.values[4] = builder.coreclr_path.v

\* The initializer was given a native search path of three segments, the
\* second of them empty.
C14_Witness ==
    /\ lastBuild.initCalls = 1
    /\ builder.native_library_search_paths = << <<>>, <<"a">> >>
    /\ lastBuild.initArgs.values[4] = <<"/", "r", ":", ":", "a">>

\* C15: no operation repeats a foreign call.  One build() has called dlopen at
\* most once, has asked for each of the four exports at most once and has called
\* the initializer at most once; one execute_assembly or create_delegate call
\* has invoked its export at most once; and a failed load, a failed resolution
\* or a nonzero initializer result is what build() returned, nothing having
\* been attempted after it.
C15_NoRetry ==
    /\ lastBuild.dlopens <= 1
    /\ Len(lastBuild.attempts) <= 4
    /\ \A i, j \in DOMAIN lastBuild.attempts :
          lastBuild.attempts[i] = lastBuild.attempts[j] => i = j
    /\ lastBuild.initCalls <= 1
    /\ lastCall.invoked <= 1
    /\ (Built /\ lastBuild.dlopens = 1 /\ ~lastBuild.env.dlopen)
        => /\ lastBuild.result = dlerror_path(lastBuild.env)
           /\ lastBuild.attempts = <<>> /\ lastBuild.initCalls = 0
    /\ (Built /\ lastBuild.loaded /\ lastBuild.env.exports # AllSymbols)
        => /\ lastBuild.result = dlerror_path(lastBuild.env)
           /\ lastBuild.attempts[Len(lastBuild.attempts)] \notin lastBuild.env.exports
           /\ \A i \in 1..(Len(lastBuild.attempts) - 1) :
                 lastBuild.attempts[i] \in lastBuild.env.exports
           /\ lastBuild.initCalls = 0
    /\ (Built /\ lastBuild.initCalls = 1 /\ lastBuild.env.init.code # 0)
        => lastBuild.result = from_raw_os_error(lastBuild.env.init.code)
    /\ (lastCall.op \in {"execute_assembly", "create_delegate"}
            /\ lastCall.phase = "idle" /\ lastCall.invoked = 1 /\ lastCall.ret.code # 0)
        => lastCall.result = from_raw_os_error(lastCall.ret.code)

\* A build() whose one dlopen call failed has returned the loader's error.
C15_Witness ==
    /\ Built /\ lastBuild.dlopens = 1 /\ ~lastBuild.loaded
    /\ IsErr(lastBuild.result, "Other")
    /\ lastBuild.attempts = <<>>

\* C16: whenever the runtime library directory or the entry assembly is unset
\* or is not valid UTF-8, build() has returned an error (NotFound or
\* InvalidInput) without any dlopen, symbol resolution, directory scan,
\* initializer call, dlclose or shutdown call having taken place.
C16_ValidationFirst ==
    (Built /\ (CoreUnset \/ CoreBad \/ AsmUnset \/ AsmIsBad))
    => /\ IsErr(lastBuild.result, "NotFound") \/ IsErr(lastBuild.result, "InvalidInput")
       /\ lastBuild.dlopens = 0
       /\ ~lastBuild.loaded
       /\ lastBuild.attempts = <<>>
       /\ lastBuild.funs = {}
       /\ lastBuild.scans = 0
       /\ lastBuild.initCalls = 0
       /\ lastBuild.dlcloses = 0
       /\ lastBuild.shutdowns = 0
       /\ lastBuild.host = NoHost

\* build() refused an entry assembly that is not valid UTF-8 where the library
\* would have loaded and initialized.
C16_Witness ==
    /\ Built /\ CoreText /\ AsmIsBad
    /\ lastBuild.env.dlopen /\ lastBuild.env.exports = AllSymbols
    /\ lastBuild.env.init.code = 0
    /\ IsErr(lastBuild.result, "InvalidInput")
    /\ lastBuild.dlopens = 0

\* C17: whenever build() has given control back with a failure (an error or
\* an unwind) after the library was loaded, it has called dlclose exactly once,
\* has not invoked the shutdown export and has made no ClrHost; each of these
\* is such a failure: an export that does not resolve, an assembly probing path
\* that is not valid UTF-8, a failed scan, a domain name or entry assembly path
\* with a NUL, a nonzero initializer result.  A successful build() has closed
\* nothing, and a build() that loaded nothing has closed nothing.  While the
\* process runs, the open handles of the library are those held by ClrHosts.
C17_ReleaseOnFailure ==
    /\ (Built /\ lastBuild.loaded /\ lastBuild.result.tag \in {"Err", "Panic"})
        => /\ lastBuild.dlcloses = 1
           /\ lastBuild.shutdowns = 0
           /\ lastBuild.host = NoHost
    /\ (Built /\ lastBuild.loaded
            /\ \/ lastBuild.env.exports # AllSymbols
               \/ ProbeBad
               \/ ~Listable(lastBuild.env.listing)
               \/ (builder.appdomain_name.some /\ HasNul(builder.appdomain_name.v))
               \/ HasNul(builder.assembly.v)
               \/ lastBuild.env.init.code # 0)
        => lastBuild.result.tag # "Ok"
    /\ (Built /\ lastBuild.result.tag = "Ok")
        => lastBuild.loaded /\ lastBuild.dlcloses = 0 /\ lastBuild.shutdowns = 0
    /\ (Built /\ ~lastBuild.loaded) => lastBuild.dlcloses = 0
    /\ alive => dlRefs = Cardinality({h \in 1..MaxHosts : hosts[h].coreclr})

\* build() failed in the trusted-assembly scan and closed the library it had loaded.
C17_Witness ==
    /\ Built /\ lastBuild.loaded /\ lastBuild.scans = 1
    /\ lastBuild.tpa.tag = "Err"
    /\ lastBuild.result = lastBuild.tpa
    /\ lastBuild.dlcloses = 1
    /\ dlRefs = 0

\* C18: build() takes the builder by shared reference and writes none of its
\* fields: a step in which build() has run (it leaves a new record of a build,
\* with a ClrHost or with any error) leaves the GC flags, the runtime library
\* directory, the entry assembly, the domain name and both probing-path lists
\* as they were.
C18_Step ==
    (lastBuild'.result.tag # "None" /\ lastBuild' # lastBuild)
    => /\ builder'.server_gc = builder.server_gc
       /\ builder'.concurrent_gc = builder.concurrent_gc
       /\ builder'.coreclr_path = builder.coreclr_path
       /\ builder'.assembly = builder.assembly
       /\ builder'.appdomain_name = builder.appdomain_name
       /\ builder'.assembly_load_paths = builder.assembly_load_paths
       /\ builder'.native_library_search_paths = builder.native_library_search_paths

C18_BuildReadOnly == [][C18_Step]_vars

\* A build() has succeeded on a builder with both GC flags changed and with
\* assembly probing paths, and the builder still holds them.
C18_Witness ==
    /\ Built /\ lastBuild.result.tag = "Ok"
    /\ builder.server_gc /\ ~builder.concurrent_gc
    /\ Len(builder.assembly_load_paths) = MaxProbePaths
    /\ lastBuild.initArgs.values[6] = <<"true">>

\* C19: a ClrHost is created with the handle and the domain id the initializer
\* wrote, no step changes either of them afterwards, and every invocation of
\* the executor, the delegate creator and the shutdown export is given the
\* stored handle and a domain id with the bits of the stored id: the id itself
\* as a c_uint for the executor and for shutdown, its two's complement reading
\* as a c_int for the delegate creator.
C19_Step ==
    /\ \A h \in 1..MaxHosts :
          /\ hosts[h].state # "None"
                => /\ hosts'[h].coreclr_handle = hosts[h].coreclr_handle
                   /\ hosts'[h].domain_id = hosts[h].domain_id
          /\ (hosts[h].state = "None" /\ hosts'[h].state # "None")
                => /\ lastBuild'.initCalls = 1
                   /\ hosts'[h].coreclr_handle = lastBuild'.env.init.handle
                   /\ hosts'[h].domain_id = lastBuild'.env.init.domain
    /\ lastCall'.invoked = 1
          => /\ lastCall'.op \in {"execute_assembly", "create_delegate", "drop"}
             /\ lastCall'.args.handle = hosts'[lastCall'.host].coreclr_handle
             /\ lastCall'.args.domain % CUintMod = hosts'[lastCall'.host].domain_id
             /\ lastCall'.op = "create_delegate"
                  => lastCall'.args.domain \in (0 - (CUintMod \div 2))..((CUintMod \div 2) - 1)
             /\ lastCall'.op # "create_delegate"
                  => lastCall'.args.domain = hosts'[lastCall'.host].domain_id

C19_HandleAndDomainStable == [][C19_Step]_vars

\* The delegate creator was given a domain id whose top bit is set, as a
\* negative c_int, and the null handle the initializer had written.
C19_Witness ==
    /\ lastCall.op = "create_delegate" /\ lastCall.invoked = 1
    /\ hosts[lastCall.host].domain_id = CUintMod \div 2
    /\ lastCall.args.domain = 0 - (CUintMod \div 2)
    /\ lastCall.args.handle = 0
    /\ lastCall.phase = "idle"

=============================================================================
